---- MODULE Spec2Model ----
(***************************************************************************)
(* Model of the Utah housing cleaning library                              *)
(* (src/src/utah_housing_stat386/cleaning.py).                             *)
(*                                                                         *)
(* Strings are sequences of one-character strings.  A cell value is a      *)
(* record [k, s, n, d]: k is the Python type of the value ("nan" for       *)
(* NaN/None, "str", "float", "int"), s the characters of a string, n/d the *)
(* number as a reduced fraction.  A call that ends in an exception yields  *)
(* a value of kind "raise" whose e field names the exception.              *)
(*                                                                         *)
(* float() and int() are modelled on strings over digits, '.', ',', '$',   *)
(* '+', '-', blanks and the letters a b c e f q s t x A: no underscore and *)
(* neither i nor n occur, so "inf" and "nan" cannot be spelled and the     *)
(* grammar below is all of Python's grammar on these strings.              *)
(***************************************************************************)
EXTENDS Integers, Sequences, FiniteSets, TLC

VARIABLES
    fn,            \* field cleaner that has been called, "none" before the call
    inp,           \* its argument
    res,           \* its result (or the exception it ended in)
    current_year,  \* datetime.now().year as read by the call, 0 if not read
    table,         \* argument of a table operation
    keys,          \* subset argument of remove_duplicates
    tfn,           \* table operation that has been called, "none" before
    out,           \* result of the table operation
    pc,            \* position of the running entry point
    output,        \* the output argument of get_cleaned_data
    df_raw,        \* its local df_raw
    df_clean,      \* its local df_clean
    scrapes,       \* number of get_data invocations so far
    stages,        \* cleaning stages that have run, in order
    files,         \* names of the files written
    ret,           \* what the call returned or raised
    entry,         \* the entry point that has been called, "none" if none
    csv,           \* what pd.read_csv finds at each CSV location
    reads,         \* locations handed to pd.read_csv so far, in order
    handoffs,      \* argument and result of each cleaning stage, in order
    shown,         \* messages put on the page by st.error and st.info
    dpc,           \* position of the dashboard script run
    module,        \* the module the dashboard's "import cleaning" finds
    dataset_choice, \* the Dataset selectbox
    apply_cleaning, \* the "Apply cleaning pipeline" checkbox
    uploaded,      \* the uploaded CSV, as pd.read_csv reads it, or no file
    static_df,     \* what load_static_data returned to main
    main_df,       \* the active table of main (its local df)
    widgets,       \* sidebar widgets created so far
    selected_city, \* the Select City selectbox
    narrowed,      \* the range slider the user has moved, "none" if none
    ranges,        \* the values of the four range filters
    df_filtered,   \* main's df_filtered
    drawn,         \* metrics, charts and tables put on the page
    scatter,       \* rows plotted by create_price_per_sqft_scatter
    histogram      \* rows of the single-city price-per-sqft histogram

vars == <<fn, inp, res, current_year, table, keys, tfn, out,
          pc, output, df_raw, df_clean, scrapes, stages, files, ret,
          entry, csv, reads, handoffs, shown,
          dpc, module, dataset_choice, apply_cleaning, uploaded, static_df, main_df,
          widgets, selected_city, narrowed, ranges, df_filtered, drawn,
          scatter, histogram>>

fieldVars == <<fn, inp, res, current_year>>
tableVars == <<table, keys, tfn, out>>
callVars == <<pc, output, df_raw, df_clean, scrapes, stages, files, ret,
              entry, csv, reads, handoffs, shown>>
dashVars == <<dpc, module, dataset_choice, apply_cleaning, uploaded, static_df, main_df,
              widgets, selected_city, narrowed, ranges, df_filtered, drawn,
              scatter, histogram>>

----------------------------------------------------------------------------
(* Bounds of the input spaces *)

MaxFieldLen == 3
MaxYearLen == 4
MaxLotPieces == 4
MaxGarageLen == 4
MaxAddressLen == 5

----------------------------------------------------------------------------
(* Values *)

NaN == [k |-> "nan", s |-> <<>>, n |-> 0, d |-> 1, e |-> ""]

Str(s) == [k |-> "str", s |-> s, n |-> 0, d |-> 1, e |-> ""]

Abs(a) == IF a < 0 THEN 0 - a ELSE a

RECURSIVE GCD(_, _)
GCD(a, b) == IF b = 0 THEN a ELSE GCD(b, a % b)

Flt(n, d) ==
    LET g == GCD(Abs(n), d)
    IN  [k |-> "float", s |-> <<>>, n |-> n \div g, d |-> d \div g, e |-> ""]

IntVal(n) == [k |-> "int", s |-> <<>>, n |-> n, d |-> 1, e |-> ""]

Raise(e) == [k |-> "raise", s |-> <<>>, n |-> 0, d |-> 1, e |-> e]

----------------------------------------------------------------------------
(* Python string and regular-expression primitives used by the cleaners *)

Digits == {"0", "1", "2", "3", "4", "5", "6", "7", "8", "9"}

Whitespace == {" ", "\t"}

DigitChars == <<"0", "1", "2", "3", "4", "5", "6", "7", "8", "9">>

DigitVal(c) == (CHOOSE i \in 1..10 : DigitChars[i] = c) - 1

RECURSIVE DigitsVal(_)
DigitsVal(s) ==
    IF s = <<>> THEN 0
    ELSE DigitsVal(SubSeq(s, 1, Len(s) - 1)) * 10 + DigitVal(s[Len(s)])

RECURSIVE Pow10(_)
Pow10(k) == IF k = 0 THEN 1 ELSE 10 * Pow10(k - 1)

\* str.lower()
LowerChar(c) == IF c = "A" THEN "a" ELSE IF c = "E" THEN "e" ELSE c

Lower(s) == [i \in 1..Len(s) |-> LowerChar(s[i])]

\* re.sub('[...]', '', s)
RemoveChars(s, C) == SelectSeq(s, LAMBDA c : c \notin C)

RECURSIVE LStrip(_, _)
LStrip(s, C) ==
    IF s # <<>> /\ s[1] \in C THEN LStrip(Tail(s), C) ELSE s

RECURSIVE RStrip(_, _)
RStrip(s, C) ==
    IF s # <<>> /\ s[Len(s)] \in C THEN RStrip(SubSeq(s, 1, Len(s) - 1), C) ELSE s

\* str.strip() and str.strip(chars)
Strip(s, C) == RStrip(LStrip(s, C), C)

\* sub in s
Contains(s, sub) ==
    \E i \in 1..(Len(s) - Len(sub) + 1) : SubSeq(s, i, i + Len(sub) - 1) = sub

\* re.findall('[C]+', s): the maximal runs of characters of C, left to right
RECURSIVE FindAllFrom(_, _, _, _)
FindAllFrom(s, C, i, cur) ==
    LET flush == IF cur = <<>> THEN <<>> ELSE <<cur>>
    IN  IF i > Len(s) THEN flush
        ELSE IF s[i] \in C THEN FindAllFrom(s, C, i + 1, Append(cur, s[i]))
        ELSE flush \o FindAllFrom(s, C, i + 1, <<>>)

FindAll(s, C) == FindAllFrom(s, C, 1, <<>>)

\* re.sub(r'\s+', ' ', s)
RECURSIVE CollapseWhitespace(_)
CollapseWhitespace(s) ==
    IF s = <<>> THEN <<>>
    ELSE IF s[1] \in Whitespace
         THEN <<" ">> \o CollapseWhitespace(LStrip(s, Whitespace))
         ELSE <<s[1]>> \o CollapseWhitespace(Tail(s))

\* re.sub(r',\s*,', ',', s): leftmost non-overlapping matches
RECURSIVE CollapseCommas(_)
CollapseCommas(s) ==
    IF s = <<>> THEN <<>>
    ELSE LET rest == LStrip(Tail(s), Whitespace)
         IN  IF s[1] = "," /\ rest # <<>> /\ rest[1] = ","
             THEN <<",">> \o CollapseCommas(Tail(rest))
             ELSE <<s[1]>> \o CollapseCommas(Tail(s))

Signs == {"+", "-"}

Unsigned(t) == IF t # <<>> /\ t[1] \in Signs THEN Tail(t) ELSE t

IsNegative(t) == t # <<>> /\ t[1] = "-"

\* position of the first character of C in s, 0 if there is none
FirstOf(s, C) ==
    IF \E i \in 1..Len(s) : s[i] \in C
    THEN CHOOSE i \in 1..Len(s) : s[i] \in C /\ \A j \in 1..(i - 1) : s[j] \notin C
    ELSE 0

\* F applied to the value of v, which is evaluated once
Let(v, F(_)) == CHOOSE r \in {F(x) : x \in {v}} : TRUE

\* the value of digits [. digits] with at least one digit, or ValueError
MantissaValue(mant) ==
    LET p == FirstOf(mant, {"."})
        ip == IF p = 0 THEN mant ELSE SubSeq(mant, 1, p - 1)
        fp == IF p = 0 THEN <<>> ELSE SubSeq(mant, p + 1, Len(mant))
    IN  IF /\ \A i \in 1..Len(mant) : mant[i] \in Digits \cup {"."}
           /\ \A i \in 1..Len(fp) : fp[i] # "."
           /\ Len(ip) + Len(fp) > 0
        THEN Flt(DigitsVal(ip) * Pow10(Len(fp)) + DigitsVal(fp), Pow10(Len(fp)))
        ELSE Raise("ValueError")

\* m times ten to the power written in expo as [sign] digits, or ValueError
Scaled(m, expo) ==
    LET edig == Unsigned(expo)
    IN  IF m.k = "raise" \/ edig = <<>> \/ \E i \in 1..Len(edig) : edig[i] \notin Digits
        THEN Raise("ValueError")
        ELSE IF IsNegative(expo) THEN Flt(m.n, m.d * Pow10(DigitsVal(edig)))
        ELSE Flt(m.n * Pow10(DigitsVal(edig)), m.d)

Negated(m) == IF m.k = "raise" THEN m ELSE Flt(0 - m.n, m.d)

\* the value of [sign] digits [. digits] [e [sign] digits], or ValueError
FloatLiteral(t) ==
    Let(Unsigned(t), LAMBDA body :
        Let(FirstOf(body, {"e", "E"}), LAMBDA epos :
            Let(IF epos = 0 THEN MantissaValue(body)
                ELSE Scaled(MantissaValue(SubSeq(body, 1, epos - 1)),
                            SubSeq(body, epos + 1, Len(body))),
                LAMBDA mag : IF IsNegative(t) THEN Negated(mag) ELSE mag)))

\* float(s) for a str s: the value, or ValueError
ParseFloat(s) == Let(Strip(s, Whitespace), LAMBDA t : FloatLiteral(t))

\* int(s) for a str s: the value, or ValueError
ParseInt(s) ==
    LET t == Strip(s, Whitespace)
        body == Unsigned(t)
    IN  IF body # <<>> /\ \A i \in 1..Len(body) : body[i] \in Digits
        THEN IntVal(IF IsNegative(t) THEN 0 - DigitsVal(body) ELSE DigitsVal(body))
        ELSE Raise("ValueError")

\* int(value): a str is parsed, a float is truncated towards zero
PyInt(value) ==
    CASE value.k = "str" -> ParseInt(value.s)
      [] value.k = "float" ->
            IntVal(IF value.n < 0 THEN 0 - ((0 - value.n) \div value.d)
                   ELSE value.n \div value.d)
      [] OTHER -> value

RECURSIVE NatDigits(_)
NatDigits(n) ==
    IF n < 10 THEN <<DigitChars[n + 1]>>
    ELSE Append(NatDigits(n \div 10), DigitChars[(n % 10) + 1])

RECURSIVE ZeroPad(_, _)
ZeroPad(s, width) == IF Len(s) >= width THEN s ELSE ZeroPad(<<"0">> \o s, width)

\* the number of decimal places of a fraction with denominator d; the floats
\* of this model all have a terminating decimal expansion
DecimalPlaces(d) ==
    CHOOSE k \in 0..9 : Pow10(k) % d = 0 /\ \A j \in 0..(k - 1) : Pow10(j) % d # 0

\* repr(x) of a float 0 <= x < 1e16: fixed notation from 0.0001 upwards,
\* exponent notation below
FloatRepr(n, d) ==
    LET k == DecimalPlaces(d)
        N == n * (Pow10(k) \div d)
        sig == NatDigits(N)
        e == k - (Len(sig) - 1)
    IN  IF k = 0 THEN NatDigits(n) \o <<".", "0">>
        ELSE IF e <= 4
             THEN NatDigits(n \div d) \o <<".">> \o ZeroPad(NatDigits(N % Pow10(k)), k)
             ELSE <<sig[1]>>
                  \o (IF Len(sig) > 1 THEN <<".">> \o Tail(sig) ELSE <<>>)
                  \o <<"e", "-">> \o ZeroPad(NatDigits(e), 2)

\* str(value): a str is itself, a number is written as repr writes it
ToStr(value) ==
    CASE value.k = "str" -> value.s
      [] value.k = "float" ->
            IF value.n < 0 THEN <<"-">> \o FloatRepr(0 - value.n, value.d)
            ELSE FloatRepr(value.n, value.d)
      [] value.k = "int" ->
            IF value.n < 0 THEN <<"-">> \o NatDigits(0 - value.n)
            ELSE NatDigits(value.n)
      [] OTHER -> <<"n", "a", "n">>

----------------------------------------------------------------------------
(* The field cleaners *)

check_is_nan(value) == value.k = "nan" \/ value = Str(<<>>)

clean_price(price_str) ==
    IF check_is_nan(price_str) THEN NaN
    ELSE LET clean == RemoveChars(ToStr(price_str), {"$", ","} \cup Whitespace)
             f == ParseFloat(clean)
         IN  IF f.k = "raise" THEN NaN ELSE f

clean_numeric_field(value) ==
    IF check_is_nan(value) THEN NaN
    ELSE LET cleaned == RemoveChars(ToStr(value), {","} \cup Whitespace)
             f == ParseFloat(cleaned)
         IN  IF f.k = "raise" /\ f.e = "ValueError" THEN NaN ELSE f

YearFloor == 1800

YearSlack == 2

\* variant: the upper bound taken as exclusive
clean_year_built_exclusive(year_built, now_year) ==
    IF check_is_nan(year_built) THEN NaN
    ELSE LET year == PyInt(year_built)
         IN  IF year.k = "raise" /\ year.e = "ValueError" THEN NaN
             ELSE IF YearFloor <= year.n /\ year.n < now_year + YearSlack
                  THEN year
                  ELSE NaN

clean_year_built(year_built, now_year) ==
    IF check_is_nan(year_built) THEN NaN
    ELSE LET year == PyInt(year_built)
         IN  IF year.k = "raise" /\ year.e = "ValueError" THEN NaN
             ELSE IF YearFloor <= year.n /\ year.n <= now_year + YearSlack
                  THEN year
                  ELSE NaN

SqFtPerAcre == 43560

clean_lot_size(lot_size_str) ==
    IF check_is_nan(lot_size_str) THEN NaN
    ELSE LET lot == Strip(Lower(ToStr(lot_size_str)), Whitespace)
             numbers == FindAll(lot, Digits \cup {"."})
             value == ParseFloat(numbers[1])
         IN  IF numbers = <<>> THEN NaN
             ELSE IF value.k = "raise" THEN value
             ELSE IF Contains(lot, <<"a", "c">>)
                     \/ Contains(lot, <<"a", "c", "r", "e">>)
                  THEN value
             ELSE IF Contains(lot, <<"s", "q">>) \/ Contains(lot, <<"f", "t">>)
                  THEN Flt(value.n, value.d * SqFtPerAcre)
             ELSE value

\* variant: the last digit run is taken instead of the first
clean_garage_last(garage_str) ==
    IF check_is_nan(garage_str) THEN IntVal(0)
    ELSE LET numbers == FindAll(ToStr(garage_str), Digits)
         IN  IF numbers # <<>> THEN IntVal(DigitsVal(numbers[Len(numbers)]))
             ELSE IntVal(0)

clean_garage(garage_str) ==
    IF check_is_nan(garage_str) THEN IntVal(0)
    ELSE LET numbers == FindAll(ToStr(garage_str), Digits)
         IN  IF numbers # <<>> THEN IntVal(DigitsVal(numbers[1])) ELSE IntVal(0)

clean_address(address_str) ==
    IF check_is_nan(address_str) THEN NaN
    ELSE LET c1 == Strip(CollapseWhitespace(ToStr(address_str)), Whitespace)
             c2 == CollapseCommas(c1)
         IN  Str(Strip(Strip(c2, {","}), Whitespace))

clean_city(city_str) ==
    IF check_is_nan(city_str) THEN NaN
    ELSE Str(Strip(Lower(ToStr(city_str)), Whitespace))

----------------------------------------------------------------------------
(* Input spaces of the field cleaners *)

SeqsUpTo(A, n) == UNION {[1..m -> A] : m \in 0..n}

RECURSIVE Concat(_)
Concat(ps) == IF ps = <<>> THEN <<>> ELSE ps[1] \o Concat(Tail(ps))

FieldAlphabet == {"1", ".", ",", "$", "a", " "}

FieldInputs(n) == {NaN} \cup {Str(s) : s \in SeqsUpTo(FieldAlphabet, n)}

YearAlphabet == {"0", "1", "2", "7", "8", "9", " ", "."}

YearInputs(n) == {NaN} \cup {Str(s) : s \in SeqsUpTo(YearAlphabet, n)}

\* the calendar years datetime.now().year may return
CurrentYears == {2026, 2027}

LotPieces == {<<"1">>, <<"4">>, <<".">>, <<" ">>, <<"a">>, <<"c">>, <<"A">>,
              <<"s", "q">>, <<"f", "t">>}

LotInputs(n) == {NaN} \cup {Str(Concat(ps)) : ps \in SeqsUpTo(LotPieces, n)}

GarageAlphabet == {"1", "2", "a", " "}

GarageInputs(n) == {NaN} \cup {Str(s) : s \in SeqsUpTo(GarageAlphabet, n)}

AddressAlphabet == {"a", ",", " ", "\t"}

AddressInputs(n) == {NaN} \cup {Str(s) : s \in SeqsUpTo(AddressAlphabet, n)}

----------------------------------------------------------------------------
(* Calls of the field cleaners *)

EmptyTable == [cols |-> {}, rows |-> <<>>]

NoReturn == [kind |-> "none", value |-> EmptyTable, text |-> "", exc |-> ""]

ReturnTable(t) == [kind |-> "table", value |-> t, text |-> "", exc |-> ""]

ReturnStr(text) == [kind |-> "str", value |-> EmptyTable, text |-> text, exc |-> ""]

\* an exception of type exc with the message text
Raised(exc, text) == [kind |-> "raise", value |-> EmptyTable, text |-> text, exc |-> exc]

\* result of a table operation: the table, or the exception it ended in
OkT(t) == [err |-> "", tbl |-> t]

ErrT(e) == [err |-> e, tbl |-> EmptyTable]

NoTable == OkT(EmptyTable)

ReturnNone == [kind |-> "None", value |-> EmptyTable, text |-> "", exc |-> ""]

\* the CSV locations the entry points read
PackagedCsv == "utah_housing_stat386/data/test_data.csv"

DemoUrl == "sethfrand/Stat_386_final_project/refs/heads/main/data/test_data.csv"

StaticFiles ==
    <<"../../data/utah_housing_data_ORIGINAL.csv",
      "../../data/Salt_Lake_County_housing_data.csv">>

StaticUrls ==
    <<"carsonordyna/Stat_386_final_project/refs/heads/main/data/utah_housing_data_ORIGINAL.csv",
      "carsonordyna/Stat_386_final_project/refs/heads/main/data/Salt_Lake_County_housing_data.csv">>

Locations ==
    {PackagedCsv, DemoUrl, StaticFiles[1], StaticFiles[2], StaticUrls[1], StaticUrls[2]}

\* a location pd.read_csv cannot read, and one holding the table t
Unavailable == [ok |-> FALSE, tbl |-> EmptyTable]

Holding(t) == [ok |-> TRUE, tbl |-> t]

NoCsv == [l \in Locations |-> Unavailable]

FieldIdle == fn = "none" /\ inp = NaN /\ res = NaN /\ current_year = 0

TableIdle == table = EmptyTable /\ keys = <<>> /\ tfn = "none" /\ out = NoTable

\* no entry point has been called directly
NoCall ==
    /\ pc = "idle" /\ output = "pandas"
    /\ df_raw = EmptyTable /\ df_clean = EmptyTable
    /\ scrapes = 0 /\ stages = <<>> /\ files = {} /\ ret = NoReturn
    /\ entry = "none" /\ reads = <<>> /\ handoffs = <<>>

CallIdle == NoCall /\ csv = NoCsv /\ shown = <<>>

NoFile == [present |-> FALSE, tbl |-> EmptyTable]

Unset == [kind |-> "unset", tbl |-> EmptyTable]

NoRanges == [price |-> <<>>, beds |-> <<>>, year |-> <<>>, baths |-> <<>>]

DashIdle ==
    /\ dpc = "idle" /\ module = "none"
    /\ dataset_choice = "Static Data" /\ apply_cleaning = TRUE
    /\ uploaded = NoFile /\ static_df = Unset /\ main_df = Unset
    /\ widgets = {} /\ selected_city = [all |-> TRUE, name |-> <<>>]
    /\ narrowed = "none" /\ ranges = NoRanges /\ df_filtered = EmptyTable /\ drawn = {}
    /\ scatter = <<>> /\ histogram = <<>>

FieldCall(name, result) ==
    /\ fn = "none"
    /\ fn' = name
    /\ res' = result
    /\ UNCHANGED <<inp, current_year, tableVars, callVars, dashVars>>

CallCleanPrice == FieldCall("clean_price", clean_price(inp))

CallCleanNumericField == FieldCall("clean_numeric_field", clean_numeric_field(inp))

\* datetime.now() is read only once int() has succeeded
CallCleanYearBuilt ==
    /\ fn = "none"
    /\ fn' = "clean_year_built"
    /\ \E cy \in CurrentYears :
          /\ res' = clean_year_built(inp, cy)
          /\ current_year' = IF check_is_nan(inp) \/ PyInt(inp).k = "raise"
                             THEN current_year ELSE cy
    /\ UNCHANGED <<inp, tableVars, callVars, dashVars>>

CallCleanLotSize == FieldCall("clean_lot_size", clean_lot_size(inp))

CallCleanGarage == FieldCall("clean_garage", clean_garage(inp))

CallCleanAddress == FieldCall("clean_address", clean_address(inp))

CallCleanCity == FieldCall("clean_city", clean_city(inp))

InitFieldOn(S) ==
    /\ fn = "none" /\ inp \in S /\ res = NaN /\ current_year = 0
    /\ TableIdle /\ CallIdle /\ DashIdle

InitField == InitFieldOn(FieldInputs(MaxFieldLen))

NextField ==
    \/ CallCleanPrice
    \/ CallCleanNumericField
    \/ CallCleanYearBuilt
    \/ CallCleanLotSize
    \/ CallCleanGarage
    \/ CallCleanAddress
    \/ CallCleanCity

SpecField == InitField /\ [][NextField]_vars

InitYear == InitFieldOn(YearInputs(MaxYearLen))

NextYear == CallCleanYearBuilt

SpecYear == InitYear /\ [][NextYear]_vars

InitLot == InitFieldOn(LotInputs(MaxLotPieces))

NextLot == CallCleanLotSize

SpecLot == InitLot /\ [][NextLot]_vars

InitGarage == InitFieldOn(GarageInputs(MaxGarageLen))

NextGarage == CallCleanGarage

SpecGarage == InitGarage /\ [][NextGarage]_vars

InitAddress == InitFieldOn(AddressInputs(MaxAddressLen))

NextAddress == CallCleanAddress

SpecAddress == InitAddress /\ [][NextAddress]_vars

----------------------------------------------------------------------------
(* Tables: a set of column names and a sequence of rows, each row carrying  *)
(* its index label and one cell per column                                  *)

MaxDupRows == 4
MaxInvalidRows == 3
MaxListings == 2
MaxCleanRows == 2

Row(i, cells) == [idx |-> i, cells |-> cells]

\* a DataFrame built from records gets the index labels 0, 1, 2, ...
MkTable(cols, cellSeq) ==
    [cols |-> cols, rows |-> [i \in 1..Len(cellSeq) |-> Row(i - 1, cellSeq[i])]]

\* the cleaner clean_housing_data applies to a column, if any
CleanedColumns ==
    {"price", "beds", "baths", "sqft", "year_built", "lot_size", "garage",
     "address", "city"}

ApplyCleaner(col, v, now_year) ==
    CASE col = "price" -> clean_price(v)
      [] col \in {"beds", "baths", "sqft"} -> clean_numeric_field(v)
      [] col = "year_built" -> clean_year_built(v, now_year)
      [] col = "lot_size" -> clean_lot_size(v)
      [] col = "garage" -> clean_garage(v)
      [] col = "address" -> clean_address(v)
      [] col = "city" -> clean_city(v)
      [] OTHER -> v

\* every row with its cells passed through the cleaners, agent dropped
CleanedRows(df, now_year) ==
    [i \in 1..Len(df.rows) |->
        Row(df.rows[i].idx,
            [c \in df.cols \ {"agent"} |->
                ApplyCleaner(c, df.rows[i].cells[c], now_year)])]

\* the exception of the first row in which a cleaner raised, "" if none did
FirstRaise(rows) ==
    LET raising(r) == {c \in DOMAIN r.cells : r.cells[c].k = "raise"}
        failed == {i \in 1..Len(rows) : raising(rows[i]) # {}}
        first == CHOOSE m \in failed : \A j \in failed : m <= j
    IN  IF failed = {} THEN ""
        ELSE rows[first].cells[CHOOSE c \in raising(rows[first]) : TRUE].e

clean_housing_data(df, now_year) ==
    Let(CleanedRows(df, now_year), LAMBDA rows :
        IF FirstRaise(rows) # "" THEN ErrT(FirstRaise(rows))
        ELSE OkT([cols |-> df.cols \ {"agent"}, rows |-> rows]))

\* Series.notna()
notna(v) == v.k # "nan"

KeyOf(r, subset) == [i \in 1..Len(subset) |-> r.cells[subset[i]]]

\* variant: a dropped duplicate clears the mark of its key
RECURSIVE DropDuplicatesForgetful(_, _, _)
DropDuplicatesForgetful(rows, subset, seen) ==
    IF rows = <<>> THEN <<>>
    ELSE LET key == KeyOf(rows[1], subset)
         IN  IF key \in seen
             THEN DropDuplicatesForgetful(Tail(rows), subset, seen \ {key})
             ELSE <<rows[1]>> \o DropDuplicatesForgetful(Tail(rows), subset, seen \cup {key})

\* DataFrame.drop_duplicates(subset, keep='first') over the rows, seen being
\* the key tuples met so far
RECURSIVE DropDuplicatesFrom(_, _, _)
DropDuplicatesFrom(rows, subset, seen) ==
    IF rows = <<>> THEN <<>>
    ELSE LET key == KeyOf(rows[1], subset)
         IN  IF key \in seen
             THEN DropDuplicatesFrom(Tail(rows), subset, seen)
             ELSE <<rows[1]>> \o DropDuplicatesFrom(Tail(rows), subset, seen \cup {key})

Reverse(q) == [i \in 1..Len(q) |-> q[Len(q) + 1 - i]]

\* variant: keep='last'
remove_duplicates_keep_last(df, subset) ==
    IF \E i \in 1..Len(subset) : subset[i] \notin df.cols
    THEN ErrT("KeyError")
    ELSE OkT([cols |-> df.cols,
              rows |-> Reverse(DropDuplicatesFrom(Reverse(df.rows), subset, {}))])

remove_duplicates(df, subset) ==
    IF \E i \in 1..Len(subset) : subset[i] \notin df.cols
    THEN ErrT("KeyError")
    ELSE OkT([cols |-> df.cols, rows |-> DropDuplicatesFrom(df.rows, subset, {})])

critical_fields == <<"mls", "price", "address">>

\* one turn of the loop of remove_invalid_entries
FilterField(r, field) ==
    IF r.err # "" \/ field \notin r.tbl.cols THEN r
    ELSE LET present == SelectSeq(r.tbl.rows, LAMBDA x : notna(x.cells[field]))
         IN  IF field # "price" THEN OkT([cols |-> r.tbl.cols, rows |-> present])
             ELSE IF \E i \in 1..Len(present) : present[i].cells[field].k = "str"
                  THEN ErrT("TypeError")
                  ELSE OkT([cols |-> r.tbl.cols,
                            rows |-> SelectSeq(present, LAMBDA x : x.cells[field].n > 0)])

RECURSIVE FilterFields(_, _)
FilterFields(r, fields) ==
    IF fields = <<>> THEN r
    ELSE FilterFields(FilterField(r, fields[1]), Tail(fields))

remove_invalid_entries(df) == FilterFields(OkT(df), critical_fields)

----------------------------------------------------------------------------
(* Calls of the table operations *)

\* the tables of up to n rows whose rows are drawn from cells, a set of
\* records with one field per column
TablesOver(cols, cells, n) == {MkTable(cols, q) : q \in SeqsUpTo(cells, n)}

DupCols == {"mls", "address"}

DupCells ==
    [mls : {NaN, Str(<<"7">>), Str(<<"8">>)},
     address : {Str(<<"a">>), Str(<<"b">>)}]

DupTables(n) == TablesOver(DupCols, DupCells, n)

KeyLists == {<<"mls">>, <<"address">>, <<"mls", "address">>}

InvalidCols == {"mls", "price", "address"}

InvalidCells ==
    [mls : {NaN, Str(<<>>), Str(<<"7">>)},
     price : {NaN, Flt(0 - 1, 1), Flt(0, 1), Flt(1, 1), Str(<<"$", "1">>)},
     address : {NaN, Str(<<>>), Str(<<"a">>)}]

InvalidTables(n) == TablesOver(InvalidCols, InvalidCells, n)

CallRemoveDuplicates ==
    /\ tfn = "none"
    /\ \E subset \in KeyLists :
          /\ keys' = subset
          /\ out' = remove_duplicates(table, subset)
    /\ tfn' = "remove_duplicates"
    /\ UNCHANGED <<table, fieldVars, callVars, dashVars>>

CallRemoveInvalidEntries ==
    /\ tfn = "none"
    /\ out' = remove_invalid_entries(table)
    /\ tfn' = "remove_invalid_entries"
    /\ UNCHANGED <<table, keys, fieldVars, callVars, dashVars>>

\* the column layouts clean_housing_data is called on: with and without
\* agent, with cleaned columns absent, with columns it has no cleaner for
CleanSchemas ==
    {[cols |-> {"mls", "price", "address", "agent"},
      cells |-> [mls : {Str(<<"7">>)},
                 price : {Str(<<"$", "1">>), Str(<<>>)},
                 address : {Str(<<"a">>), Str(<<" ", "a", ",">>)},
                 agent : {Str(<<"x">>)}]],
     [cols |-> {"beds", "lot_size", "garage"},
      cells |-> [beds : {Str(<<"3">>), Str(<<"a">>)},
                 lot_size : {Str(<<"1", " ", "a", "c">>), Str(<<".">>)},
                 garage : {Str(<<"2", " ", "a">>), NaN}]],
     [cols |-> {"year_built", "city", "status"},
      cells |-> [year_built : {Str(<<"1", "9", "9", "9">>), Str(<<"2", "0", "2", "9">>)},
                 city : {Str(<<"A", " ">>), NaN},
                 status : {Str(<<" ", "A">>), NaN}]],
     [cols |-> {"baths", "sqft", "agent"},
      cells |-> [baths : {Str(<<"2", ".", "5">>), NaN},
                 sqft : {Str(<<"1", ",", "1">>), Str(<<"a">>)},
                 agent : {Str(<<"x">>), NaN}]]}

CleanTables(n) == UNION {TablesOver(sch.cols, sch.cells, n) : sch \in CleanSchemas}

\* the call reads datetime.now() when some year_built cell passes int()
ReadsClock(df) ==
    /\ "year_built" \in df.cols
    /\ \E i \in 1..Len(df.rows) :
          LET v == df.rows[i].cells["year_built"]
          IN  ~check_is_nan(v) /\ PyInt(v).k # "raise"

CallCleanHousingData ==
    /\ tfn = "none"
    /\ \E cy \in (IF ReadsClock(table) THEN CurrentYears ELSE {0}) :
          /\ out' = clean_housing_data(table, cy)
          /\ current_year' = cy
    /\ tfn' = "clean_housing_data"
    /\ UNCHANGED <<table, keys, fn, inp, res, callVars, dashVars>>

InitTableOn(S) ==
    /\ table \in S /\ keys = <<>> /\ tfn = "none" /\ out = NoTable
    /\ FieldIdle /\ CallIdle /\ DashIdle

InitDup == InitTableOn(DupTables(MaxDupRows))

NextDup == CallRemoveDuplicates

SpecDup == InitDup /\ [][NextDup]_vars

InitInvalid == InitTableOn(InvalidTables(MaxInvalidRows))

NextInvalid == CallRemoveInvalidEntries

SpecInvalid == InitInvalid /\ [][NextInvalid]_vars

InitClean == InitTableOn(CleanTables(MaxCleanRows))

NextClean == CallCleanHousingData

SpecClean == InitClean /\ [][NextClean]_vars

----------------------------------------------------------------------------
(* get_cleaned_data(max_listings, cities, output), statement by statement *)

CleanedCsv == "utah_housing_data_cleaned.csv"

SavedMessage == "Data saved to utah_housing_data_cleaned.csv"

InvalidOutputMessage == "Invalid output option. Choose 'pandas' or 'csv'."

Outputs == {"pandas", "csv", "bogus"}

RawCols == {"mls", "price", "address", "lot_size", "agent"}

RawCells ==
    [mls : {NaN, Str(<<"7">>), Str(<<"8">>)},
     price : {Str(<<"$", "1">>), Str(<<"0">>), Str(<<>>)},
     address : {NaN, Str(<<"a">>), Str(<<",">>)},
     lot_size : {Str(<<"1", " ", "a", "c">>), Str(<<".">>)},
     agent : {Str(<<"x">>)}]

\* the raw tables the scraper may hand back, of up to n listings
RawTables(n) == TablesOver(RawCols, RawCells, n)

\* df_raw = get_data(max_listings=max_listings, cities=cities, output='pandas')
GetData ==
    /\ pc = "start" /\ entry = "get_cleaned_data"
    /\ \E t \in RawTables(MaxListings) : df_raw' = t
    /\ scrapes' = scrapes + 1
    /\ pc' = "loaded"
    /\ UNCHANGED <<output, df_clean, stages, files, ret, entry, csv, reads,
                   handoffs, shown, fieldVars, tableVars, dashVars>>

\* a cleaning stage called on arg: its result becomes df_clean, its exception
\* ends the call, or reaches the except clause of load_static_data
Stage(name, arg, r, next) ==
    /\ stages' = Append(stages, name)
    /\ handoffs' = Append(handoffs, [stage |-> name, arg |-> arg, result |-> r])
    /\ IF r.err = ""
       THEN df_clean' = r.tbl /\ pc' = next /\ ret' = ret
       ELSE /\ df_clean' = df_clean
            /\ pc' = IF entry = "load_static_data" THEN "except" ELSE "done"
            /\ ret' = Raised(r.err, "")
    /\ UNCHANGED <<output, df_raw, scrapes, files, entry, csv, reads, shown,
                   fieldVars, tableVars, dashVars>>

\* df_clean = clean_housing_data(df_raw)
StageClean ==
    /\ pc = "loaded"
    /\ \E cy \in (IF "year_built" \in df_raw.cols THEN CurrentYears ELSE {0}) :
          Stage("clean_housing_data", df_raw, clean_housing_data(df_raw, cy), "cleaned")

\* variant: the validity filter runs on the raw table, before any cleaning
StageInvalid_first ==
    /\ pc = "loaded"
    /\ Stage("remove_invalid_entries", df_raw, remove_invalid_entries(df_raw),
             "validated")

\* df_clean = remove_invalid_entries(df_clean)
StageInvalid ==
    /\ pc = "cleaned"
    /\ Stage("remove_invalid_entries", df_clean, remove_invalid_entries(df_clean),
             "validated")

\* df_clean = remove_duplicates(df_clean)
StageDuplicates ==
    /\ pc = "validated"
    /\ Stage("remove_duplicates", df_clean, remove_duplicates(df_clean, <<"mls">>),
             "deduped")

\* the if / elif / else on output that ends get_cleaned_data
Dispatch(out_arg, df) ==
    IF out_arg = "pandas"
    THEN [ret |-> ReturnTable(df), written |-> {}]
    ELSE IF out_arg = "csv"
         THEN [ret |-> ReturnStr(SavedMessage), written |-> {CleanedCsv}]
         ELSE [ret |-> Raised("ValueError", InvalidOutputMessage), written |-> {}]

ReturnResult ==
    /\ pc = "deduped" /\ entry = "get_cleaned_data"
    /\ ret' = Dispatch(output, df_clean).ret
    /\ files' = files \cup Dispatch(output, df_clean).written
    /\ pc' = "done"
    /\ UNCHANGED <<output, df_raw, df_clean, scrapes, stages, entry, csv, reads,
                   handoffs, shown, fieldVars, tableVars, dashVars>>

InitGet ==
    /\ pc = "start" /\ output \in Outputs
    /\ df_raw = EmptyTable /\ df_clean = EmptyTable
    /\ scrapes = 0 /\ stages = <<>> /\ files = {} /\ ret = NoReturn
    /\ entry = "get_cleaned_data" /\ csv = NoCsv /\ reads = <<>>
    /\ handoffs = <<>> /\ shown = <<>>
    /\ FieldIdle /\ TableIdle /\ DashIdle

NextGet ==
    \/ GetData
    \/ StageClean
    \/ StageInvalid
    \/ StageDuplicates
    \/ ReturnResult

SpecGet == InitGet /\ [][NextGet]_vars

----------------------------------------------------------------------------
(* The other entry points that clean a whole table: cleaned_static_data,    *)
(* demo_cleaning (with load_demo_data), and the dashboard's                 *)
(* load_static_data and clean_uploaded_data                                 *)

MaxCsvRows == 1

CsvCols == {"mls", "price", "address", "lot_size", "agent"}

\* rows as pd.read_csv returns them: numbers parsed, empty cells NaN
CsvCells ==
    [mls : {IntVal(7), IntVal(8)},
     price : {Str(<<"$", "1">>), NaN},
     address : {Str(<<"a">>)},
     lot_size : {Str(<<"1", " ", "a", "c">>), Str(<<".">>)},
     agent : {Str(<<"x">>)}]

CsvTables(n) == TablesOver(CsvCols, CsvCells, n)

CsvContents(n) == {Unavailable} \cup {Holding(t) : t \in CsvTables(n)}

\* pd.concat([df1, df2]): the rows of both, each keeping its index label
PdConcat(df1, df2) == [cols |-> df1.cols \cup df2.cols, rows |-> df1.rows \o df2.rows]

\* importlib.resources, which demo.py binds to the name pkg_resources,
\* defines no resource_filename: the attribute lookup raises AttributeError
HasResourceFilename == FALSE

DemoEntries == {"load_demo_data", "demo_cleaning"}

\* what happens to a table once load_demo_data has it
DemoLoaded(t) ==
    /\ df_raw' = t
    /\ IF entry = "load_demo_data"
       THEN pc' = "done" /\ ret' = ReturnTable(t)
       ELSE pc' = "loaded" /\ ret' = ret

\* the try block of load_demo_data
LoadPackaged ==
    /\ pc = "start" /\ entry \in DemoEntries
    /\ IF HasResourceFilename
       THEN /\ reads' = Append(reads, PackagedCsv)
            /\ IF csv[PackagedCsv].ok
               THEN DemoLoaded(csv[PackagedCsv].tbl)
               ELSE pc' = "fallback" /\ UNCHANGED <<df_raw, ret>>
       ELSE pc' = "fallback" /\ UNCHANGED <<reads, df_raw, ret>>
    /\ UNCHANGED <<output, df_clean, scrapes, stages, files, entry, csv,
                   handoffs, shown, fieldVars, tableVars, dashVars>>

\* the except block of load_demo_data
LoadRemote ==
    /\ pc = "fallback"
    /\ reads' = Append(reads, DemoUrl)
    /\ IF csv[DemoUrl].ok
       THEN DemoLoaded(csv[DemoUrl].tbl)
       ELSE pc' = "done" /\ ret' = Raised("URLError", "") /\ df_raw' = df_raw
    /\ UNCHANGED <<output, df_clean, scrapes, stages, files, entry, csv,
                   handoffs, shown, fieldVars, tableVars, dashVars>>

\* df1 = pd.read_csv(loc[1]); df2 = pd.read_csv(loc[2]);
\* df_raw = pd.concat([df1, df2]), the first unreadable location raising exc
ReadTwo(loc, exc) ==
    /\ reads' = IF csv[loc[1]].ok THEN reads \o loc ELSE Append(reads, loc[1])
    /\ IF csv[loc[1]].ok /\ csv[loc[2]].ok
       THEN /\ df_raw' = PdConcat(csv[loc[1]].tbl, csv[loc[2]].tbl)
            /\ pc' = "loaded" /\ ret' = ret
       ELSE /\ df_raw' = df_raw
            /\ pc' = IF entry = "load_static_data" THEN "except" ELSE "done"
            /\ ret' = Raised(exc, "")
    /\ UNCHANGED <<output, df_clean, scrapes, stages, files, entry, csv,
                   handoffs, shown, fieldVars, tableVars, dashVars>>

\* cleaned_static_data reads the two files under ../../data
ReadStaticFiles ==
    /\ pc = "start" /\ entry = "cleaned_static_data"
    /\ ReadTwo(StaticFiles, "FileNotFoundError")

\* load_static_data reads the two GitHub URLs
FetchStatic ==
    /\ pc = "start" /\ entry = "load_static_data"
    /\ ReadTwo(StaticUrls, "URLError")

LoadErrorMessage == "Error loading data"

\* except Exception as e: st.error(...); return None
CatchStatic ==
    /\ pc = "except"
    /\ shown' = Append(shown, [kind |-> "error", text |-> LoadErrorMessage])
    /\ ret' = ReturnNone
    /\ pc' = "done"
    /\ UNCHANGED <<output, df_raw, df_clean, scrapes, stages, files, entry, csv,
                   reads, handoffs, fieldVars, tableVars, dashVars>>

\* clean_uploaded_data(df) starts on its argument
TakeArgument ==
    /\ pc = "start" /\ entry = "clean_uploaded_data"
    /\ \E t \in CsvTables(MaxCsvRows) : df_raw' = t
    /\ pc' = "loaded"
    /\ UNCHANGED <<output, df_clean, scrapes, stages, files, ret, entry, csv,
                   reads, handoffs, shown, fieldVars, tableVars, dashVars>>

\* return df_clean (demo_cleaning returns it together with df_raw)
ReturnClean ==
    /\ pc = "deduped" /\ entry # "get_cleaned_data"
    /\ ret' = ReturnTable(df_clean)
    /\ pc' = "done"
    /\ UNCHANGED <<output, df_raw, df_clean, scrapes, stages, files, entry, csv,
                   reads, handoffs, shown, fieldVars, tableVars, dashVars>>

EntryPoints ==
    {"get_cleaned_data", "cleaned_static_data", "load_demo_data", "demo_cleaning",
     "load_static_data", "clean_uploaded_data"}

\* the two locations an entry point reads, if it reads any
LocationsOf(e) ==
    CASE e \in DemoEntries -> <<PackagedCsv, DemoUrl>>
      [] e = "cleaned_static_data" -> StaticFiles
      [] e = "load_static_data" -> StaticUrls
      [] OTHER -> <<>>

\* the CSV locations when those of entry point e hold a and b
CsvFor(e, a, b) ==
    LET locs == LocationsOf(e)
    IN  [l \in Locations |->
            IF locs # <<>> /\ l = locs[1] THEN a
            ELSE IF locs # <<>> /\ l = locs[2] THEN b
            ELSE Unavailable]

Init ==
    /\ pc = "start" /\ entry \in EntryPoints
    /\ output \in (IF entry = "get_cleaned_data" THEN Outputs ELSE {"pandas"})
    /\ \E a, b \in CsvContents(MaxCsvRows) : csv = CsvFor(entry, a, b)
    /\ df_raw = EmptyTable /\ df_clean = EmptyTable
    /\ scrapes = 0 /\ stages = <<>> /\ files = {} /\ ret = NoReturn
    /\ reads = <<>> /\ handoffs = <<>> /\ shown = <<>>
    /\ FieldIdle /\ TableIdle /\ DashIdle

Next ==
    \/ GetData
    \/ LoadPackaged
    \/ LoadRemote
    \/ ReadStaticFiles
    \/ FetchStatic
    \/ TakeArgument
    \/ StageClean
    \/ StageInvalid
    \/ StageDuplicates
    \/ CatchStatic
    \/ ReturnResult
    \/ ReturnClean

Spec == Init /\ [][Next]_vars

----------------------------------------------------------------------------
(* One run of the dashboard script streamlit_app.py *)

MaxDashRows == 2

\* the two files a module named cleaning can be: the library's, and the
\* cleaning.py that lies beside streamlit_app.py
LibraryModule == "src/utah_housing_stat386/cleaning.py"

RootModule == "cleaning.py"

ImportedNames ==
    {"cleaned_static_data", "clean_housing_data", "remove_duplicates",
     "remove_invalid_entries"}

\* the functions each file defines
Exports(m) ==
    IF m = LibraryModule
    THEN {"check_is_nan", "clean_price", "clean_numeric_field", "clean_year_built",
          "clean_lot_size", "clean_garage", "clean_address", "clean_city",
          "clean_housing_data", "remove_duplicates", "remove_invalid_entries",
          "get_cleaned_data", "data_no_scape", "cleaned_static_data"}
    ELSE {"check_is_nan", "clean_price", "clean_numeric_field", "clean_year_built",
          "clea_lot_size", "clean_garage", "remove_agent", "clean_address",
          "clean_city", "clean_housing_data", "remove_duplicates",
          "remove_invalid_entries", "get_cleaned_data"}

Msg(kind, text) == [kind |-> kind, text |-> text]

ImportMessage == "Could not import cleaning module"

NoFileMessage == "No file uploaded yet. Falling back to static data"

CleanedMessage == "Data cleaned successfully"

FailedMessage == "Failed to load data. Please check your data sources."

DashCols ==
    {"mls", "price", "address", "city", "beds", "baths", "sqft", "year_built",
     "lot_size"}

Listing(mls, price, city, beds, baths, sqft, year, lot) ==
    [mls |-> IntVal(mls), price |-> price, address |-> Str(<<"a">>), city |-> city,
     beds |-> beds, baths |-> baths, sqft |-> sqft, year_built |-> year,
     lot_size |-> lot]

\* listings as pd.read_csv returns them: numeric columns hold floats or NaN
DashListings ==
    {Listing(1, Flt(4, 1), Str(<<"A">>), Flt(3, 1), Flt(5, 2), Flt(2, 1),
             Flt(1999, 1), Str(<<"1", " ", "a", "c">>)),
     Listing(2, Flt(3, 1), Str(<<"a">>), Flt(2, 1), Flt(1, 1), Flt(0, 1),
             Flt(2000, 1), NaN),
     Listing(3, Flt(9, 2), Str(<<"b">>), NaN, NaN, NaN, NaN, NaN),
     Listing(4, NaN, Str(<<"b">>), Flt(3, 1), Flt(2, 1), Flt(2, 1),
             Flt(2001, 1), NaN),
     Listing(1, Flt(2, 1), NaN, Flt(4, 1), Flt(3, 1), Flt(4, 1),
             Flt(1700, 1), NaN),
     Listing(5, Flt(1, 1), Str(<<"a">>), Flt(1, 1), Flt(1, 1), Flt(1, 1),
             Flt(1999, 1), Str(<<".">>))}

DashTables(n) == TablesOver(DashCols, DashListings, n)

DashContents(n) == {Unavailable} \cup {Holding(t) : t \in DashTables(n)}

File(t) == [present |-> TRUE, tbl |-> t]

AsTable(t) == [kind |-> "table", tbl |-> t]

NoneDf == [kind |-> "None", tbl |-> EmptyTable]

\* clean_housing_data, then remove_invalid_entries, then remove_duplicates
Pipeline(t, now_year) ==
    Let(clean_housing_data(t, now_year), LAMBDA a :
        IF a.err # "" THEN a
        ELSE Let(remove_invalid_entries(a.tbl), LAMBDA b :
                 IF b.err # "" THEN b ELSE remove_duplicates(b.tbl, <<"mls">>)))

\* load_static_data(): the cleaned table, or None after st.error
load_static_data(world, now_year) ==
    IF world[StaticUrls[1]].ok /\ world[StaticUrls[2]].ok
    THEN Let(Pipeline(PdConcat(world[StaticUrls[1]].tbl, world[StaticUrls[2]].tbl),
                      now_year),
             LAMBDA r : IF r.err = "" THEN AsTable(r.tbl) ELSE NoneDf)
    ELSE NoneDf

\* the script's own import of the cleaning functions
DashImport ==
    /\ dpc = "import"
    /\ IF ImportedNames \subseteq Exports(module)
       THEN dpc' = "main" /\ shown' = shown
       ELSE dpc' = "stopped" /\ shown' = Append(shown, Msg("error", ImportMessage))
    /\ UNCHANGED <<module, dataset_choice, apply_cleaning, uploaded, static_df,
                   main_df, widgets, selected_city, narrowed, ranges, df_filtered,
                   drawn, scatter, histogram>>
    /\ UNCHANGED <<pc, output, df_raw, df_clean, scrapes, stages, files, ret,
                   entry, csv, reads, handoffs, fieldVars, tableVars>>

\* what main shows when it falls back to, or asks for, the static data
StaticMessages(choice, static) ==
    (IF choice = "Upload CSV" THEN <<Msg("info", NoFileMessage)>> ELSE <<>>)
    \o (IF static.kind = "None" THEN <<Msg("error", LoadErrorMessage)>> ELSE <<>>)

\* main up to its data: the source widgets and the branch on dataset_choice
DashLoad ==
    /\ dpc = "main"
    /\ widgets' = widgets \cup {"Dataset", "Apply cleaning pipeline"}
                     \cup (IF dataset_choice = "Upload CSV"
                           THEN {"Upload a CSV file"} ELSE {})
    /\ \E cy \in CurrentYears :
          IF dataset_choice = "Static Data" \/ ~uploaded.present
          THEN \E static \in {load_static_data(csv, cy)} :
                  /\ static_df' = static /\ main_df' = static
                  /\ shown' = shown \o StaticMessages(dataset_choice, static)
                  /\ dpc' = "loaded"
          ELSE IF apply_cleaning
          THEN \E r \in {Pipeline(uploaded.tbl, cy)} :
                  /\ static_df' = static_df
                  /\ IF r.err = ""
                     THEN /\ main_df' = AsTable(r.tbl)
                          /\ shown' = Append(shown, Msg("success", CleanedMessage))
                          /\ dpc' = "loaded"
                     ELSE /\ main_df' = main_df
                          /\ shown' = Append(shown, Msg("exception", r.err))
                          /\ dpc' = "crashed"
          ELSE /\ static_df' = static_df /\ main_df' = AsTable(uploaded.tbl)
               /\ shown' = shown /\ dpc' = "loaded"
    /\ UNCHANGED <<module, dataset_choice, apply_cleaning, uploaded, selected_city,
                   narrowed, ranges, df_filtered, drawn, scatter, histogram>>
    /\ UNCHANGED <<pc, output, df_raw, df_clean, scrapes, stages, files, ret,
                   entry, csv, reads, handoffs, fieldVars, tableVars>>

\* variant: only a missing table stops the run
DashGate_none_only ==
    /\ dpc = "loaded"
    /\ IF main_df.kind = "None"
       THEN dpc' = "returned" /\ shown' = Append(shown, Msg("error", FailedMessage))
       ELSE dpc' = "sidebar" /\ shown' = shown
    /\ UNCHANGED <<module, dataset_choice, apply_cleaning, uploaded, static_df,
                   main_df, widgets, selected_city, narrowed, ranges, df_filtered,
                   drawn, scatter, histogram>>
    /\ UNCHANGED <<pc, output, df_raw, df_clean, scrapes, stages, files, ret,
                   entry, csv, reads, handoffs, fieldVars, tableVars>>

\* if df is None or len(df) == 0: st.error(...); return
DashGate ==
    /\ dpc = "loaded"
    /\ IF main_df.kind = "None" \/ Len(main_df.tbl.rows) = 0
       THEN dpc' = "returned" /\ shown' = Append(shown, Msg("error", FailedMessage))
       ELSE dpc' = "sidebar" /\ shown' = shown
    /\ UNCHANGED <<module, dataset_choice, apply_cleaning, uploaded, static_df,
                   main_df, widgets, selected_city, narrowed, ranges, df_filtered,
                   drawn, scatter, histogram>>
    /\ UNCHANGED <<pc, output, df_raw, df_clean, scrapes, stages, files, ret,
                   entry, csv, reads, handoffs, fieldVars, tableVars>>

AllCities == [all |-> TRUE, name |-> <<>>]

City(name) == [all |-> FALSE, name |-> name]

\* Series.notna().any()
AnyNotna(rows, c) == \E i \in 1..Len(rows) : notna(rows[i].cells[c])

\* a <= b for two numbers held as fractions
Leq(a, b) == a.n * b.d <= b.n * a.d

\* Series.min() and Series.max(), which skip NaN
ColMin(rows, c) ==
    LET vals == {rows[i].cells[c] : i \in {j \in 1..Len(rows) : notna(rows[j].cells[c])}}
    IN  CHOOSE v \in vals : \A w \in vals : Leq(v, w)

ColMax(rows, c) ==
    LET vals == {rows[i].cells[c] : i \in {j \in 1..Len(rows) : notna(rows[j].cells[c])}}
    IN  CHOOSE v \in vals : \A w \in vals : Leq(w, v)

\* the default value of a range slider: (int(col.min()), int(col.max()))
SliderDefault(rows, c) == <<PyInt(ColMin(rows, c)).n, PyInt(ColMax(rows, c)).n>>

FallbackMaxPrice == 1000000

FallbackMaxCount == 10

RangeSliders == {"price", "beds", "year", "baths"}

SliderColumn(f) == IF f = "year" THEN "year_built" ELSE f

\* the sliders main creates: one for each column that has a value
SlidersOf(rows) == {f \in RangeSliders : AnyNotna(rows, SliderColumn(f))}

\* the range a filter has when its column has no value; year_range stays unbound
FallbackRange(f) ==
    CASE f = "price" -> <<0, FallbackMaxPrice>>
      [] f = "year" -> <<>>
      [] OTHER -> <<0, FallbackMaxCount>>

\* the values of the four range filters when the user has moved the slider
\* named moved down to its lower end and left the others alone
RangeValues(rows, moved) ==
    [f \in RangeSliders |->
        IF f \notin SlidersOf(rows) THEN FallbackRange(f)
        ELSE IF f = moved
             THEN <<SliderDefault(rows, SliderColumn(f))[1],
                    SliderDefault(rows, SliderColumn(f))[1]>>
             ELSE SliderDefault(rows, SliderColumn(f))]

\* ['All'] + the cities of df
CityChoices(rows) ==
    {AllCities} \cup {City(rows[i].cells["city"].s) :
                         i \in {j \in 1..Len(rows) : notna(rows[j].cells["city"])}}

FilterWidgets == {"Select City", "Price Range ($)", "Bedrooms", "Year Built", "Bathrooms"}

SliderLabel(f) ==
    CASE f = "price" -> "Price Range ($)"
      [] f = "beds" -> "Bedrooms"
      [] f = "year" -> "Year Built"
      [] OTHER -> "Bathrooms"

\* the sidebar filters and analysis options
DashFilters ==
    /\ dpc = "sidebar"
    /\ \E city \in CityChoices(main_df.tbl.rows) :
          selected_city' = city
    /\ \E moved \in {"none"} \cup SlidersOf(main_df.tbl.rows) :
          /\ narrowed' = moved
          /\ ranges' = RangeValues(main_df.tbl.rows, moved)
    /\ widgets' = widgets \cup {"Select City"}
                     \cup {SliderLabel(f) : f \in SlidersOf(main_df.tbl.rows)}
                     \cup {"Show Raw Data Table", "Show Statistical Summary"}
    /\ dpc' = "filters"
    /\ UNCHANGED <<module, dataset_choice, apply_cleaning, uploaded, static_df,
                   main_df, df_filtered, drawn, scatter, histogram, shown>>
    /\ UNCHANGED <<pc, output, df_raw, df_clean, scrapes, stages, files, ret,
                   entry, csv, reads, handoffs, fieldVars, tableVars>>

\* (col >= rg[0]) & (col <= rg[1]), false on NaN
InRange(v, rg) == notna(v) /\ rg[1] * v.d <= v.n /\ v.n <= rg[2] * v.d

Keep(rows, c, rg) == SelectSeq(rows, LAMBDA r : InRange(r.cells[c], rg))

\* a range filter that is applied only if the column still has a value
KeepIfAny(rows, c, rg) == IF AnyNotna(rows, c) THEN Keep(rows, c, rg) ELSE rows

KeepCity(rows, city) ==
    IF city.all THEN rows
    ELSE SelectSeq(rows, LAMBDA r : r.cells["city"] = Str(city.name))

\* the "Apply filters" block of main
ApplyFilters(rows, city, rg) ==
    Let(Keep(KeepCity(rows, city), "price", rg.price), LAMBDA byPrice :
        Let(KeepIfAny(byPrice, "beds", rg.beds), LAMBDA byBeds :
            Let(KeepIfAny(byBeds, "baths", rg.baths), LAMBDA byBaths :
                KeepIfAny(byBaths, "year_built", rg.year))))

DashApply ==
    /\ dpc = "filters"
    /\ df_filtered' = [cols |-> main_df.tbl.cols,
                       rows |-> ApplyFilters(main_df.tbl.rows, selected_city, ranges)]
    /\ dpc' = "filtered"
    /\ UNCHANGED <<module, dataset_choice, apply_cleaning, uploaded, static_df,
                   main_df, widgets, selected_city, narrowed, ranges, drawn,
                   scatter, histogram, shown>>
    /\ UNCHANGED <<pc, output, df_raw, df_clean, scrapes, stages, files, ret,
                   entry, csv, reads, handoffs, fieldVars, tableVars>>

\* a row with the column price_per_sqft = price / sqft added
WithPricePerSqft(r) ==
    [idx |-> r.idx,
     cells |-> [c \in DOMAIN r.cells \cup {"price_per_sqft"} |->
                   IF c = "price_per_sqft"
                   THEN Flt(r.cells["price"].n * r.cells["sqft"].d,
                            r.cells["price"].d * r.cells["sqft"].n)
                   ELSE r.cells[c]]]

\* dropna(subset=['sqft', 'price'])
HasPriceAndSqft(r) == notna(r.cells["sqft"]) /\ notna(r.cells["price"])

\* variant: rows of zero square feet are kept
PricePerSqft_zero_kept(rows) ==
    LET kept == SelectSeq(rows, LAMBDA r : HasPriceAndSqft(r) /\ r.cells["sqft"].n >= 0)
    IN  [i \in 1..Len(kept) |-> WithPricePerSqft(kept[i])]

\* dropna, then sqft > 0, then the division
PricePerSqft(rows) ==
    LET kept == SelectSeq(rows, LAMBDA r : HasPriceAndSqft(r) /\ r.cells["sqft"].n > 0)
    IN  [i \in 1..Len(kept) |-> WithPricePerSqft(kept[i])]

\* the histogram is built only for a single city with a row left by dropna
HasHistogram(rows, city) == ~city.all /\ \E i \in 1..Len(rows) : HasPriceAndSqft(rows[i])

Always == {"Data Preview", "Key Metrics", "Price Distribution", "Price vs Square Footage",
           "Beds and Baths", "Year Built Trend"}

\* everything main puts on the page after the filters
DashRender ==
    /\ dpc = "filtered"
    /\ scatter' = PricePerSqft(df_filtered.rows)
    /\ histogram' = IF HasHistogram(df_filtered.rows, selected_city)
                    THEN PricePerSqft(df_filtered.rows) ELSE <<>>
    /\ \E show_raw_data, show_stats \in BOOLEAN :
          drawn' = Always
                   \cup (IF selected_city.all THEN {"Price by City"} ELSE {})
                   \cup (IF HasHistogram(df_filtered.rows, selected_city)
                         THEN {"Price per Sq Ft"} ELSE {})
                   \cup (IF show_stats THEN {"Statistical Summary"} ELSE {})
                   \cup (IF show_raw_data THEN {"Raw Data", "Download"} ELSE {})
    /\ dpc' = "end"
    /\ UNCHANGED <<module, dataset_choice, apply_cleaning, uploaded, static_df,
                   main_df, widgets, selected_city, narrowed, ranges, df_filtered,
                   shown>>
    /\ UNCHANGED <<pc, output, df_raw, df_clean, scrapes, stages, files, ret,
                   entry, csv, reads, handoffs, fieldVars, tableVars>>

InitDash ==
    /\ dpc = "import" /\ module \in {LibraryModule, RootModule}
    /\ dataset_choice \in {"Static Data", "Upload CSV"}
    /\ apply_cleaning \in BOOLEAN
    /\ uploaded \in (IF dataset_choice = "Upload CSV"
                     THEN {NoFile} \cup {File(t) : t \in DashTables(MaxDashRows)}
                     ELSE {NoFile})
    /\ IF uploaded.present THEN csv = NoCsv
       ELSE \E a, b \in DashContents(MaxCsvRows) : csv = CsvFor("load_static_data", a, b)
    /\ static_df = Unset /\ main_df = Unset
    /\ widgets = {} /\ selected_city = AllCities /\ narrowed = "none"
    /\ ranges = NoRanges /\ df_filtered = EmptyTable /\ drawn = {}
    /\ scatter = <<>> /\ histogram = <<>>
    /\ shown = <<>>
    /\ NoCall /\ FieldIdle /\ TableIdle

NextDash ==
    \/ DashImport
    \/ DashLoad
    \/ DashGate
    \/ DashFilters
    \/ DashApply
    \/ DashRender

SpecDash == InitDash /\ [][NextDash]_vars

----------------------------------------------------------------------------
(* clean_uploaded_data called on a raw table, then on its own result *)

MaxRerunRows == 2

RerunCols == {"mls", "price", "address", "lot_size"}

RerunCells ==
    [mls : {Str(<<"7">>), Str(<<"8">>)},
     price : {Str(<<"$", "1">>), Str(<<"0">>)},
     address : {Str(<<"a">>), Str(<<"a", ",", ",", ",", "a">>), Str(<<",">>)},
     lot_size : {Str(<<"1", " ", "a", "c">>), Str(<<".", "0", "0", "0", "0", "1">>),
                 Str(<<".">>)}]

RerunTables(n) == TablesOver(RerunCols, RerunCells, n)

\* the first call, on the raw table
CleanUploaded ==
    /\ tfn = "none"
    /\ out' = Pipeline(table, 0)
    /\ tfn' = "clean_uploaded_data"
    /\ UNCHANGED <<table, keys, fieldVars, callVars, dashVars>>

\* the second call, on the table the first call returned
CleanAgain ==
    /\ tfn = "clean_uploaded_data" /\ out.err = ""
    /\ table' = out.tbl
    /\ out' = Pipeline(out.tbl, 0)
    /\ tfn' = "clean_uploaded_data again"
    /\ UNCHANGED <<keys, fieldVars, callVars, dashVars>>

InitRerun == InitTableOn(RerunTables(MaxRerunRows))

NextRerun ==
    \/ CleanUploaded
    \/ CleanAgain

SpecRerun == InitRerun /\ [][NextRerun]_vars

----------------------------------------------------------------------------
(* Properties of the field cleaners *)

IsStr(v) == v.k = "str"

ResultKinds(name) ==
    CASE name = "clean_price" -> {"float", "nan"}
      [] name = "clean_numeric_field" -> {"float", "nan"}
      [] name = "clean_year_built" -> {"int", "nan"}
      [] name = "clean_lot_size" -> {"float", "nan"}
      [] name = "clean_garage" -> {"int"}
      [] name = "clean_address" -> {"str", "nan"}
      [] name = "clean_city" -> {"str", "nan"}

\* C1: whatever the input (missing, empty, or any string of digits, '.',
\* ',', '$', letters and blanks), a field cleaner returns a value of its
\* declared type or the missing marker (clean_garage: an integer) and never
\* ends in an exception.
C1_CleanersNeverRaise ==
    fn # "none" => res.k # "raise" /\ res.k \in ResultKinds(fn)

\* C8: clean_year_built returns the integer y when the input parses as the
\* integer y and 1800 <= y <= current_year + 2, the year being read by the
\* call itself, and returns missing for every other input.
C8_YearBuiltRange ==
    fn = "clean_year_built" =>
        LET y == IF IsStr(inp) THEN ParseInt(inp.s) ELSE Raise("TypeError")
        IN  IF y.k = "int" /\ 1800 <= y.n /\ y.n <= current_year + 2
            THEN res = IntVal(y.n)
            ELSE res = NaN

\* the year current_year + 2 itself has been accepted
C8_Witness ==
    /\ fn = "clean_year_built"
    /\ current_year \in CurrentYears
    /\ res = IntVal(current_year + 2)

\* C9: on a non-missing input clean_lot_size returns missing when the
\* lower-cased trimmed string has no numeric token; otherwise, v being the
\* value of the first numeric token, it returns v when the string contains
\* "ac", else v / 43560 when it contains "sq" or "ft", else v.
C9_LotSizeUnits ==
    (fn = "clean_lot_size" /\ ~check_is_nan(inp)) =>
        LET lot == Strip(Lower(inp.s), Whitespace)
            tokens == FindAll(lot, Digits \cup {"."})
            v == ParseFloat(tokens[1])
        IN  IF tokens = <<>> THEN res = NaN
            ELSE /\ v.k = "float"
                 /\ res = IF Contains(lot, <<"a", "c">>) THEN v
                          ELSE IF Contains(lot, <<"s", "q">>)
                                  \/ Contains(lot, <<"f", "t">>)
                               THEN Flt(v.n, v.d * 43560)
                               ELSE v

IsDigitRun(s, i, j) ==
    /\ i <= j
    /\ \A m \in i..j : s[m] \in Digits
    /\ \A m \in 1..(i - 1) : s[m] \notin Digits
    /\ j = Len(s) \/ s[j + 1] \notin Digits

CommaPair(s, i, j) ==
    /\ i < j /\ s[i] = "," /\ s[j] = ","
    /\ \A m \in (i + 1)..(j - 1) : s[m] \in Whitespace

\* C11: for every non-missing input, the string clean_address returns has no
\* run of two or more whitespace characters, no two commas that are adjacent
\* or separated only by whitespace, and neither begins nor ends with a comma
\* or a whitespace character.
C11_AddressNormalised ==
    (fn = "clean_address" /\ ~check_is_nan(inp)) =>
        /\ IsStr(res)
        /\ \A i \in 1..(Len(res.s) - 1) :
               ~(res.s[i] \in Whitespace /\ res.s[i + 1] \in Whitespace)
        /\ \A i, j \in 1..Len(res.s) : ~CommaPair(res.s, i, j)
        /\ res.s # <<>> =>
               /\ res.s[1] \notin Whitespace \cup {","}
               /\ res.s[Len(res.s)] \notin Whitespace \cup {","}

----------------------------------------------------------------------------
(* Properties of the table operations *)

\* C12: clean_housing_data returns a table with the rows of its input in the
\* same order, whose columns are the input's columns minus agent; each of
\* price, beds, baths, sqft, year_built, lot_size, garage, address, city that
\* is present holds, row by row, the result of its field cleaner on the input
\* value, every other column keeps its input values, and no column is added.
C12_CleanFrame ==
    tfn = "clean_housing_data" =>
        /\ out.err = ""
        /\ out.tbl.cols = table.cols \ {"agent"}
        /\ Len(out.tbl.rows) = Len(table.rows)
        /\ \A i \in 1..Len(table.rows) :
              /\ out.tbl.rows[i].idx = table.rows[i].idx
              /\ DOMAIN out.tbl.rows[i].cells = table.cols \ {"agent"}
              /\ \A c \in table.cols \ {"agent"} :
                    out.tbl.rows[i].cells[c] =
                        IF c \in CleanedColumns
                        THEN ApplyCleaner(c, table.rows[i].cells[c], current_year)
                        ELSE table.rows[i].cells[c]

\* "missing": a null value or an empty string
Missing(v) == v.k = "nan" \/ (v.k = "str" /\ v.s = <<>>)

IsNumber(v) == v.k \in {"float", "int"}

ValidEntry(r) ==
    /\ ~Missing(r.cells["mls"])
    /\ ~Missing(r.cells["price"])
    /\ ~Missing(r.cells["address"])
    /\ IsNumber(r.cells["price"]) /\ r.cells["price"].n > 0

NumericOrMissingPrice(df) ==
    \A i \in 1..Len(df.rows) :
        IsNumber(df.rows[i].cells["price"]) \/ df.rows[i].cells["price"].k = "nan"

\* C3: on a table whose prices are numbers or missing, remove_invalid_entries
\* returns exactly the input rows, in input order, whose mls, price and
\* address are all non-missing and whose price is > 0.
C3_InvalidEntriesExact ==
    (tfn = "remove_invalid_entries" /\ NumericOrMissingPrice(table)) =>
        /\ out.err = ""
        /\ out.tbl.cols = table.cols
        /\ out.tbl.rows = SelectSeq(table.rows, ValidEntry)

\* positions of the rows that are the first to carry their key combination
FirstPositions(rows, subset) ==
    {i \in 1..Len(rows) :
        \A j \in 1..(i - 1) : KeyOf(rows[j], subset) # KeyOf(rows[i], subset)}

NthOf(S, m) == CHOOSE i \in S : Cardinality({j \in S : j <= i}) = m

\* C4: remove_duplicates keeps, for each distinct combination of key values,
\* exactly the first input row carrying it; the kept rows are unaltered and
\* in their input order, and nothing else is kept.
C4_KeepsFirstInOrder ==
    tfn = "remove_duplicates" =>
        LET first == FirstPositions(table.rows, keys)
        IN  /\ out.err = ""
            /\ out.tbl.cols = table.cols
            /\ Len(out.tbl.rows) = Cardinality(first)
            /\ \A m \in 1..Len(out.tbl.rows) :
                   out.tbl.rows[m] = table.rows[NthOf(first, m)]

\* a duplicate lying between two kept rows has been dropped
C4_Witness ==
    /\ tfn = "remove_duplicates"
    /\ \E m \in 1..(Len(out.tbl.rows) - 1) :
          out.tbl.rows[m].idx + 1 < out.tbl.rows[m + 1].idx

\* C5: remove_duplicates applied to its own result, with the same keys,
\* returns that result row for row.
C5_DuplicatesIdempotent ==
    tfn = "remove_duplicates" =>
        /\ out.err = ""
        /\ remove_duplicates(out.tbl, keys) = out

\* three rows or more shared one key combination and one of them is left
C5_Witness ==
    /\ tfn = "remove_duplicates"
    /\ \E i \in 1..Len(table.rows) :
          Cardinality({j \in 1..Len(table.rows) :
              KeyOf(table.rows[j], keys) = KeyOf(table.rows[i], keys)}) >= 3
    /\ Len(out.tbl.rows) < Len(table.rows)

----------------------------------------------------------------------------
(* Properties of get_cleaned_data *)

\* C2: the table that comes out of clean_housing_data, remove_invalid_entries
\* and remove_duplicates has, in every row, a non-missing mls, price and
\* address (neither null nor the empty string) and a price > 0, and no two
\* of its rows share an mls.
C2_CleanTableInvariant ==
    (Len(stages) = 3 /\ pc \in {"deduped", "done"} /\ ret.exc # "KeyError") =>
        /\ \A i \in 1..Len(df_clean.rows) : ValidEntry(df_clean.rows[i])
        /\ \A i, j \in 1..Len(df_clean.rows) :
               i # j => df_clean.rows[i].cells["mls"] # df_clean.rows[j].cells["mls"]

ValidOutputs == {"pandas", "csv"}

\* C6: a call with an output other than "pandas" or "csv" ends in the
\* Invalid-Input ValueError and writes no file; the cleaned CSV is written
\* only by a call with output "csv", which returns the confirmation string;
\* a call with output "pandas" returns the clean table and writes no file.
C6_OutputDispatch ==
    /\ files # {} => output = "csv" /\ files = {CleanedCsv}
    /\ pc = "done" =>
        /\ output \notin ValidOutputs =>
               ret = Raised("ValueError", InvalidOutputMessage) /\ files = {}
        /\ output = "csv" => ret = ReturnStr(SavedMessage) /\ files = {CleanedCsv}
        /\ output = "pandas" => ret = ReturnTable(df_clean) /\ files = {}

\* C7: a call with an invalid output fails before the scraper is invoked
\* and before any cleaning stage runs.
C7_InvalidOutputFailsFirst ==
    output \notin ValidOutputs => scrapes = 0 /\ stages = <<>>

----------------------------------------------------------------------------
(* Properties of the entry points *)

\* load_demo_data has its table, or has failed
DemoSettled == entry \in DemoEntries /\ pc \notin {"start", "fallback"}

\* C13: load_demo_data returns the packaged CSV, without fetching the remote
\* URL, whenever that resource is present and readable; it fetches the remote
\* URL only after the packaged load has failed and then returns the remote
\* table; it fails only when both are unavailable.
C13_PackagedFirst ==
    /\ (DemoSettled /\ csv[PackagedCsv].ok) =>
           /\ reads = <<PackagedCsv>>
           /\ df_raw = csv[PackagedCsv].tbl
           /\ entry = "load_demo_data" => ret = ReturnTable(csv[PackagedCsv].tbl)
    /\ (DemoSettled /\ ~csv[PackagedCsv].ok /\ csv[DemoUrl].ok) =>
           /\ reads[Len(reads)] = DemoUrl
           /\ df_raw = csv[DemoUrl].tbl
           /\ entry = "load_demo_data" => ret = ReturnTable(csv[DemoUrl].tbl)
    /\ (DemoSettled /\ ret.exc = "URLError") =>
           ~csv[PackagedCsv].ok /\ ~csv[DemoUrl].ok

PipelineOrder == <<"clean_housing_data", "remove_invalid_entries", "remove_duplicates">>

WholeTableEntries ==
    {"get_cleaned_data", "cleaned_static_data", "demo_cleaning",
     "load_static_data", "clean_uploaded_data"}

\* C14: every entry point that cleans a whole table runs clean_housing_data
\* first, remove_invalid_entries second and remove_duplicates third: at every
\* moment the stages run so far are an initial part of that order, the first
\* stage was called on the raw table and each later one on the table the
\* stage before it returned, and an entry point that returns has run all
\* three and hands back the result of the third.
C14_StageOrder ==
    entry \in WholeTableEntries =>
        /\ Len(stages) <= 3 /\ stages = SubSeq(PipelineOrder, 1, Len(stages))
        /\ Len(handoffs) = Len(stages)
        /\ \A i \in 1..Len(handoffs) :
              /\ handoffs[i].stage = PipelineOrder[i]
              /\ handoffs[i].arg = IF i = 1 THEN df_raw
                                   ELSE handoffs[i - 1].result.tbl
              /\ i > 1 => handoffs[i - 1].result.err = ""
        /\ (pc = "done" /\ ret.kind \in {"table", "str"}) =>
              /\ stages = PipelineOrder
              /\ handoffs[3].result = OkT(df_clean)
              /\ ret.kind = "table" => ret.value = df_clean

\* an entry point that reads CSV data has returned a table that kept one of
\* the two rows of its raw table
C14_Witness ==
    /\ entry \in WholeTableEntries \ {"get_cleaned_data"}
    /\ pc = "done" /\ ret.kind = "table"
    /\ Len(df_raw.rows) = 2 /\ Len(ret.value.rows) = 1

----------------------------------------------------------------------------
(* Properties of the dashboard *)

\* main has got past its check of the loaded table
PastGate == dpc \in {"returned", "sidebar", "filters", "filtered", "end"}

FellBack == dataset_choice = "Upload CSV" /\ ~uploaded.present

Has(kind, text) == \E i \in 1..Len(shown) : shown[i] = Msg(kind, text)

NothingRendered ==
    /\ widgets \cap (FilterWidgets \cup {"Show Raw Data Table", "Show Statistical Summary"}) = {}
    /\ drawn = {} /\ scatter = <<>> /\ histogram = <<>>

\* C15: with "Upload CSV" selected and no file uploaded the active table is
\* the static one; a failure while loading the static data is caught and shown
\* as an error, never ending the run with an exception; and whenever the
\* active table is None or has no rows the run shows the failed-to-load
\* message and returns with no filter widget, metric, chart or table created.
C15_FallbackAndGate ==
    /\ (PastGate \/ dpc = "loaded") /\ FellBack
          => main_df = static_df /\ static_df # Unset
    /\ dpc = "crashed" => static_df = Unset /\ uploaded.present
    /\ static_df.kind = "None" => Has("error", LoadErrorMessage)
    /\ PastGate /\ (main_df.kind = "None" \/ Len(main_df.tbl.rows) = 0)
          => /\ dpc = "returned"
             /\ shown[Len(shown)] = Msg("error", FailedMessage)
             /\ NothingRendered
    /\ PastGate /\ dpc # "returned"
          => main_df.kind = "table" /\ Len(main_df.tbl.rows) > 0

\* the fallback's static load failed and the run stopped at the gate
C15_Witness ==
    /\ FellBack /\ dpc = "returned" /\ static_df.kind = "None"
    /\ shown = <<Msg("info", NoFileMessage), Msg("error", LoadErrorMessage),
                 Msg("error", FailedMessage)>>

Filtered == dpc \in {"filtered", "end"}

FullyPopulated(r) ==
    /\ notna(r.cells["price"]) /\ notna(r.cells["beds"])
    /\ notna(r.cells["baths"]) /\ notna(r.cells["year_built"])

InSeq(x, sq) == \E i \in 1..Len(sq) : sq[i] = x

\* C16: with the city filter at "All" and every range slider at its default
\* value, every row of the active table whose price, beds, baths and
\* year_built are all present is still in the filtered table.
C16_DefaultsKeepAll ==
    Filtered /\ selected_city.all /\ narrowed = "none"
       => \A i \in 1..Len(main_df.tbl.rows) :
             FullyPopulated(main_df.tbl.rows[i])
                => InSeq(main_df.tbl.rows[i], df_filtered.rows)

\* price / sqft = ratio, as an equation between fractions
IsQuotient(ratio, price, sqft) ==
    ratio.n * price.d * sqft.n = price.n * sqft.d * ratio.d

\* the rows of a chart are exactly the rows of src with price and sqft
\* present and sqft > 0, in order, each with price_per_sqft = price / sqft
Derived(chart, src) ==
    /\ \A i \in 1..Len(chart) :
          /\ notna(chart[i].cells["price"]) /\ notna(chart[i].cells["sqft"])
          /\ chart[i].cells["sqft"].n > 0
          /\ chart[i].cells["price_per_sqft"].k = "float"
          /\ IsQuotient(chart[i].cells["price_per_sqft"], chart[i].cells["price"],
                        chart[i].cells["sqft"])
          /\ \E j \in 1..Len(src) :
                /\ src[j].idx = chart[i].idx
                /\ \A c \in DOMAIN src[j].cells : chart[i].cells[c] = src[j].cells[c]
    /\ \A j \in 1..Len(src) :
          (\E i \in 1..Len(chart) : chart[i].idx = src[j].idx)
             => /\ notna(src[j].cells["sqft"]) /\ notna(src[j].cells["price"])
                /\ src[j].cells["sqft"].n > 0

\* C17: in the scatter plot and in the single-city histogram a row is
\* included only if its price and sqft are present and sqft > 0, every
\* included row has price_per_sqft = price / sqft, and a row with missing or
\* zero sqft gets no value.
C17_PricePerSqft ==
    dpc = "end" => /\ Derived(scatter, df_filtered.rows)
                   /\ Derived(histogram, df_filtered.rows)
                   /\ "Price per Sq Ft" \in drawn => histogram = scatter

\* a single-city page whose filtered table holds a row with zero square feet
\* beside a row that is plotted in both charts
C17_Witness ==
    /\ dpc = "end" /\ ~selected_city.all /\ "Price per Sq Ft" \in drawn
    /\ Len(histogram) = 1 /\ Len(scatter) = 1 /\ Len(df_filtered.rows) = 2
    /\ \E i \in 1..2 : df_filtered.rows[i].cells["sqft"] = Flt(0, 1)

----------------------------------------------------------------------------
(* Properties of the whole pipeline *)

\* C18: running the three stages on the pipeline's own output returns that
\* output again, with the same rows and the same field values.
C18_PipelineIdempotent ==
    tfn = "clean_uploaded_data again" => out = OkT(table)

\* the three stages have all returned
PipelineDone == Len(handoffs) = 3 /\ handoffs[3].result.err = ""

SameMls(a, b) == a.cells["mls"] = b.cells["mls"]

\* row i is the first row of rows that is valid and carries its mls, and
\* another row carries the same mls
FirstValidOfSeveral(rows, i) ==
    /\ ValidEntry(rows[i])
    /\ \A j \in 1..(i - 1) : SameMls(rows[j], rows[i]) => ~ValidEntry(rows[j])
    /\ \E j \in 1..Len(rows) : j # i /\ SameMls(rows[j], rows[i])

\* C19: when several rows of the raw table carry one mls and some of them are
\* valid after cleaning, the pipeline's output holds exactly one row with that
\* mls, and it is the first valid one in input order.
C19_FirstValidSurvives ==
    PipelineDone
       => \A i \in 1..Len(handoffs[1].result.tbl.rows) :
             FirstValidOfSeveral(handoffs[1].result.tbl.rows, i)
                => /\ InSeq(handoffs[1].result.tbl.rows[i], df_clean.rows)
                   /\ Cardinality({k \in 1..Len(df_clean.rows) :
                                      SameMls(df_clean.rows[k],
                                              handoffs[1].result.tbl.rows[i])}) = 1

=============================================================================
